---- MODULE Spec2Model ----
(***************************************************************************)
(* Model of big_o/big_o.py: the call big_o(func, data_generator, ...),     *)
(* i.e. measure_execution_time followed by infer_big_o_class and the       *)
(* optional raw-data entries.                                              *)
(*                                                                         *)
(* Times and residuals are floats in the program.  Here a measured time is *)
(* a small natural number of clock ticks, and a residual is a natural      *)
(* number of units of 5e-7, so that the constant 1e-6 of line 107 is Eps   *)
(* = 2 units and two residuals one unit apart are "within epsilon".        *)
(* np.linspace is computed in exact rational arithmetic.                   *)
(***************************************************************************)
EXTENDS Integers, Sequences, FiniteSets

\* ---- bounds of the model ----
MaxSize == 4        \* min_n, max_n range over 0..MaxSize
MaxMeasures == 4    \* n_measures ranges over -1..MaxMeasures
MaxRepeats == 2     \* n_repeats ranges over 0..MaxRepeats
MaxTimings == 2     \* n_timings ranges over 0..MaxTimings
MaxClasses == 3     \* the candidate list has at most MaxClasses entries
MaxRes == 4         \* a finite residual is in 0..MaxRes
MaxTicks == 2       \* one timing round takes 1..MaxTicks ticks

\* ---- program constants ----
Eps == 2            \* 1e-6, in residual units
Inf == 1000000      \* np.inf
Unwritten == -1     \* a slot of np.empty() not assigned yet

ClassNames == {"Constant", "Linear"}

VARIABLES
    min_n, max_n, n_measures, n_repeats, n_timings, classes, return_raw_data,
    pc, err,
    ns, execution_time, i, data, measurements,
    best_class, best_residuals, fitted, k,
    log, trail

params == <<min_n, max_n, n_measures, n_repeats, n_timings, classes,
            return_raw_data>>
measure_vars == <<ns, execution_time, i, data, measurements>>
infer_vars == <<best_class, best_residuals, fitted, k, trail>>
vars == <<params, pc, err, measure_vars, infer_vars, log>>

\* ---- helpers ----
Range(s) == {s[j] : j \in DOMAIN s}

SeqsUpTo(S, n) == UNION {[1..m -> S] : m \in 0..n}

\* astype('int64') of the rational num/den (den > 0): truncation toward zero
Trunc(num, den) == IF num >= 0 THEN num \div den ELSE -((-num) \div den)

\* np.linspace without its endpoint: the step is (stop - start) / num
LinspaceNoEndpoint(start, stop, num) ==
    [j \in 1..num |-> Trunc(start * num + (j - 1) * (stop - start), num)]

\* integer steps from start, as np.arange would take them
LinspaceArange(start, stop, num) ==
    IF num = 1 THEN <<start>>
    ELSE [j \in 1..num |-> start + (j - 1) * ((stop - start) \div (num - 1))]

\* np.linspace(start, stop, num).astype('int64') for num >= 0
Linspace(start, stop, num) ==
    IF num = 1 THEN <<start>>
    ELSE [j \in 1..num |->
            Trunc(start * (num - 1) + (j - 1) * (stop - start), num - 1)]

\* np.max of a non-empty list
NpMax(s) == CHOOSE m \in Range(s) : \A x \in Range(s) : m >= x

\* np.min of a non-empty list
NpMin(s) == CHOOSE m \in Range(s) : \A x \in Range(s) : m <= x

\* b - 1e-6 in float arithmetic: inf - 1e-6 is inf
MinusEps(b) == IF b = Inf THEN Inf ELSE b - Eps

\* the comparison of line 107 without the 1e-6 margin
ImprovesNoMargin(residuals, best) == residuals < best

\* the comparison of line 107 with a margin of 2e-6
ImprovesWideMargin(residuals, best) == residuals < MinusEps(MinusEps(best))

\* line 107: residuals < best_residuals - 1e-6
Improves(residuals, best) == residuals < MinusEps(best)

\* ---- the dictionary `fitted`: insertion-ordered list of (key, val) ----
None == [kind |-> "none", id |-> 0, name |-> ""]
StrKey(s) == [kind |-> "str", id |-> 0, name |-> s]

\* a key that identifies a model by its class only
ClassKey(ident, cls) == [kind |-> "model", id |-> 0, name |-> cls]

\* inst = class_(): a fresh instance, hashed and compared by identity
InstKey(ident, cls) == [kind |-> "model", id |-> ident, name |-> cls]

ResVal(r) == [residual |-> r, arr |-> <<>>]
ArrVal(a) == [residual |-> 0, arr |-> a]

Keys(d) == {d[j].key : j \in DOMAIN d}
Get(d, key) == (CHOOSE j \in DOMAIN d : d[j].key = key)
\* d[key] = val
DictSet(d, key, val) ==
    IF key \in Keys(d)
    THEN [d EXCEPT ![Get(d, key)] = [key |-> key, val |-> val]]
    ELSE Append(d, [key |-> key, val |-> val])
Lookup(d, key) == d[Get(d, key)].val

\* ---- the event log (history of the calls made) ----
\* kind: "gen" data_generator(n) called, "func" func(data) called, "round" a
\* timing round ended with total time t, "raise" func raised, "fit" a model
\* was fitted with residual t.  idx: the sample point (or the candidate),
\* rnd: the timing round, data: the input instance.
Ev(kind, idx, rnd, dat, t) ==
    [kind |-> kind, idx |-> idx, rnd |-> rnd, data |-> dat, t |-> t]
GenCount == Cardinality({p \in DOMAIN log : log[p].kind = "gen"})
FuncCalls(dat, c) ==
    [j \in 1..c |-> Ev("func", i, Len(measurements) + 1, dat, 0)]

\* ---- initial state: big_o is called ----
\* The calls explored are three families; each varies one group of arguments
\* over its whole range and fixes the others.

\* every sampling plan, one timing of one call, one candidate
PlanInputs ==
    /\ min_n \in 0..MaxSize
    /\ max_n \in 0..MaxSize
    /\ n_measures \in -1..MaxMeasures
    /\ n_repeats = 1
    /\ n_timings = 1
    /\ classes = <<"Linear">>
    /\ return_raw_data \in BOOLEAN

\* every repeat and round count, one or two sample points, one candidate
TimingInputs ==
    /\ min_n = 1
    /\ max_n = MaxSize
    /\ n_measures \in 1..2
    /\ n_repeats \in 0..MaxRepeats
    /\ n_timings \in 0..MaxTimings
    /\ classes = <<"Linear">>
    /\ return_raw_data = FALSE

\* every candidate list, one sample point timed once
SelectInputs ==
    /\ min_n = 1
    /\ max_n = 1
    /\ n_measures = 1
    /\ n_repeats = 1
    /\ n_timings = 1
    /\ classes \in SeqsUpTo(ClassNames, MaxClasses)
    /\ return_raw_data \in BOOLEAN

Init ==
    /\ (PlanInputs \/ TimingInputs \/ SelectInputs)
    /\ pc = "start"
    /\ err = "none"
    /\ ns = <<>>
    /\ execution_time = <<>>
    /\ i = 1
    /\ data = 0
    /\ measurements = <<>>
    /\ best_class = None
    /\ best_residuals = Inf
    /\ fitted = <<>>
    /\ k = 1
    /\ log = <<>>
    /\ trail = <<>>

\* ---- measure_execution_time ----

\* lines 60-61: the sizes and the empty array of times
SamplePlan ==
    /\ pc = "start"
    /\ IF n_measures < 0
       THEN /\ pc' = "raised"
            /\ err' = "ValueError"
            /\ UNCHANGED <<ns, execution_time>>
       ELSE /\ ns' = Linspace(min_n, max_n, n_measures)
            /\ execution_time' = [j \in 1..n_measures |-> Unwritten]
            /\ pc' = "loop"
            /\ UNCHANGED err
    /\ UNCHANGED <<params, i, data, measurements, infer_vars, log>>

\* lines 62-63, 53-54: func_wrapper(n) calls data_generator(n) once
WrapperInit ==
    /\ pc = "loop"
    /\ i <= Len(ns)
    /\ data' = GenCount + 1
    /\ log' = Append(log, Ev("gen", i, 0, GenCount + 1, ns[i]))
    /\ measurements' = <<>>
    /\ pc' = "repeat"
    /\ UNCHANGED <<params, err, ns, execution_time, i, infer_vars>>

\* a round that builds its input anew: data_generator(n) before the calls
TimingRoundRegen ==
    /\ pc = "repeat"
    /\ Len(measurements) < n_timings
    /\ \E t \in 1..MaxTicks :
         /\ measurements' = Append(measurements, t)
         /\ data' = GenCount + 1
         /\ log' = log \o <<Ev("gen", i, Len(measurements) + 1, GenCount + 1,
                                ns[i])>>
                       \o FuncCalls(GenCount + 1, n_repeats)
                       \o <<Ev("round", i, Len(measurements) + 1,
                               GenCount + 1, t)>>
    /\ UNCHANGED <<params, pc, err, ns, execution_time, i, infer_vars>>

\* line 64, one round of timer.repeat: func(self.data) n_repeats times
TimingRound ==
    /\ pc = "repeat"
    /\ Len(measurements) < n_timings
    /\ \E t \in 1..MaxTicks :
         /\ measurements' = Append(measurements, t)
         /\ log' = log \o FuncCalls(data, n_repeats)
                       \o <<Ev("round", i, Len(measurements) + 1, data, t)>>
    /\ UNCHANGED <<params, pc, err, ns, execution_time, i, data, infer_vars>>

\* func raises in a round and the handling retries the round
FuncRaisesRetry ==
    /\ pc = "repeat"
    /\ Len(measurements) < n_timings
    /\ \E c \in 1..n_repeats :
         log' = log \o FuncCalls(data, c)
                     \o <<Ev("raise", i, Len(measurements) + 1, data, 0)>>
    /\ UNCHANGED <<params, pc, err, ns, execution_time, i, data, measurements,
                   infer_vars>>

\* line 64, 57: the c-th call of func in a round raises; nothing catches it
FuncRaises ==
    /\ pc = "repeat"
    /\ Len(measurements) < n_timings
    /\ \E c \in 1..n_repeats :
         log' = log \o FuncCalls(data, c)
                     \o <<Ev("raise", i, Len(measurements) + 1, data, 0)>>
    /\ pc' = "raised"
    /\ err' = "func"
    /\ UNCHANGED <<params, ns, execution_time, i, data, measurements,
                   infer_vars>>

\* lines 65-66: execution_time[i] = np.min(measurements)
RecordMin ==
    /\ pc = "repeat"
    /\ Len(measurements) = n_timings
    /\ IF measurements = <<>>
       THEN /\ pc' = "raised"
            /\ err' = "ValueError"
            /\ UNCHANGED <<execution_time, i>>
       ELSE /\ execution_time' = [execution_time EXCEPT ![i] = NpMin(measurements)]
            /\ i' = i + 1
            /\ pc' = "loop"
            /\ UNCHANGED err
    /\ UNCHANGED <<params, ns, data, measurements, infer_vars, log>>

\* line 67, 165-168, 97-99: the loop ends, ns and the times are returned
MeasureReturn ==
    /\ pc = "loop"
    /\ i > Len(ns)
    /\ best_class' = None
    /\ best_residuals' = Inf
    /\ fitted' = <<>>
    /\ k' = 1
    /\ pc' = "infer"
    /\ UNCHANGED <<params, err, measure_vars, log, trail>>

\* ---- infer_big_o_class ----

\* inst.fit(ns, time): the residual of the least-squares fit
FitResiduals == (0..MaxRes) \cup {Inf}

\* the key under which a fitted model is stored
ModelKey(ident, cls) == InstKey(ident, cls)

\* lines 100-110: one candidate is constructed, fitted and compared
FitClass ==
    /\ pc = "infer"
    /\ k <= Len(classes)
    /\ \E residuals \in FitResiduals :
         LET inst == ModelKey(k, classes[k]) IN
         /\ fitted' = DictSet(fitted, inst, ResVal(residuals))
         /\ log' = Append(log, Ev("fit", k, 0, 0, residuals))
         /\ trail' = Append(trail, best_class)
         /\ IF Improves(residuals, best_residuals)
            THEN /\ best_residuals' = residuals
                 /\ best_class' = inst
            ELSE UNCHANGED <<best_residuals, best_class>>
    /\ k' = k + 1
    /\ UNCHANGED <<params, pc, err, measure_vars>>

\* line 111: return best_class, fitted
InferReturn ==
    /\ pc = "infer"
    /\ k > Len(classes)
    /\ pc' = "tail"
    /\ UNCHANGED <<params, err, measure_vars, infer_vars, log>>

\* ---- big_o ----

\* lines 170-174: the raw data entries and the return
BigOReturn ==
    /\ pc = "tail"
    /\ fitted' = IF return_raw_data
                 THEN DictSet(DictSet(fitted, StrKey("measures"), ArrVal(ns)),
                              StrKey("times"), ArrVal(execution_time))
                 ELSE fitted
    /\ pc' = "done"
    /\ UNCHANGED <<params, err, measure_vars, best_class, best_residuals, k,
                   trail, log>>

Next ==
    \/ SamplePlan
    \/ WrapperInit
    \/ TimingRound
    \/ FuncRaises
    \/ RecordMin
    \/ MeasureReturn
    \/ FitClass
    \/ InferReturn
    \/ BigOReturn

Spec == Init /\ [][Next]_vars

\* ---- what the claims speak about ----

\* measure_execution_time has returned its observation set
MeasureReturned == pc \in {"infer", "tail", "done"}

\* big_o has returned (best, fitted)
BigOReturned == pc = "done"

Events(kind) == {p \in DOMAIN log : log[p].kind = kind}

\* the residual the fit of the j-th candidate returned
ResidualOf(j) == log[CHOOSE p \in Events("fit") : log[p].idx = j].t

Fitted == {log[p].idx : p \in Events("fit")}

\* two residuals within 1e-6 of each other
Near(a, b) == a # Inf /\ b # Inf /\ a - b <= Eps /\ b - a <= Eps

AllFinite == \A j \in Fitted : ResidualOf(j) # Inf

StrictlyIncreasing(s) == \A j \in 1..(Len(s) - 1) : s[j] < s[j + 1]

\* the sample point j has its time recorded
Recorded(j) == j \in DOMAIN execution_time /\ execution_time[j] # Unwritten

RoundsOf(j) == {p \in Events("round") : log[p].idx = j}

\* ---- C1 ----

\* C1 as stated: the best model returned is never a candidate whose residual
\* is within 1e-6 of the residual of a candidate listed before it.
C1_NeverNearAnEarlierCandidate ==
    (BigOReturned /\ best_class # None) =>
        \A j \in 1..(best_class.id - 1) :
            ~Near(ResidualOf(j), ResidualOf(best_class.id))

\* C1 amended: the best model is never a candidate whose residual is within
\* 1e-6 of the residual of the candidate that was the best so far when it was
\* evaluated, and its residual is strictly below that of every candidate
\* listed before it.
C1_NeverNearTheRunningBest ==
    (pc \in {"infer", "tail", "done"} /\ best_class # None) =>
        LET b == best_class.id
            r == ResidualOf(b)
        IN  /\ \A j \in 1..(b - 1) : r < ResidualOf(j)
            /\ trail[b] # None =>
                 /\ ~Near(ResidualOf(trail[b].id), r)
                 /\ r < ResidualOf(trail[b].id)

\* the returned best displaced an earlier candidate and kept its place
\* against a later one within 1e-6 of it
C1_Witness ==
    /\ BigOReturned
    /\ best_class # None
    /\ best_class.id >= 2
    /\ trail[best_class.id] # None
    /\ \E j \in Fitted : /\ j > best_class.id
                         /\ Near(ResidualOf(j), ResidualOf(best_class.id))

\* ---- C2 ----

\* C2: with an empty candidate list the selection fails: big_o never returns
\* a None best model together with a result map.
C2_EmptyListNeverReturns ==
    classes = <<>> => ~(BigOReturned /\ best_class = None)

\* ---- C3 ----

\* C3: a plan with n_measures <= 0 or max_n < min_n is rejected before any
\* measurement: data_generator and func are never called and no observation
\* set is returned.
C3_BadPlanRejectedFirst ==
    (n_measures <= 0 \/ max_n < min_n) =>
        /\ Events("gen") = {}
        /\ Events("func") = {}
        /\ ~MeasureReturned

\* ---- C4 ----

\* C4 as stated: the sizes returned are strictly increasing for every plan.
C4_SizesStrictlyIncreasing ==
    MeasureReturned => StrictlyIncreasing(ns)

\* C4 amended: the sizes are strictly increasing for every plan with
\* min_n >= 0 whose points are at least 1 apart, max_n - min_n >= n_measures - 1.
C4_SpacedSizesStrictlyIncreasing ==
    (min_n >= 0 /\ max_n - min_n >= n_measures - 1) => StrictlyIncreasing(ns)

\* three or more points at a non-integer distance of at least 1
C4_Witness ==
    /\ MeasureReturned
    /\ Len(ns) >= 3
    /\ max_n - min_n >= n_measures - 1
    /\ (max_n - min_n) % (n_measures - 1) # 0

\* ---- C5 ----

\* C5 as stated: n_measures sizes and n_measures times are returned, the
\* first size is min_n and the last size is max_n.
C5_BothEndpointsSampled ==
    MeasureReturned =>
        /\ Len(ns) = n_measures
        /\ Len(execution_time) = n_measures
        /\ \A j \in 1..n_measures : Recorded(j)
        /\ ns # <<>> => ns[1] = min_n /\ ns[Len(ns)] = max_n

\* C5 amended: n_measures sizes and n_measures times are returned; with two
\* or more points the first size is min_n and the last is max_n; with one
\* point the only size is min_n.
C5_EndpointsOfTwoOrMore ==
    MeasureReturned =>
        /\ Len(ns) = n_measures
        /\ Len(execution_time) = n_measures
        /\ \A j \in 1..n_measures : Recorded(j)
        /\ n_measures >= 2 => ns[1] = min_n /\ ns[Len(ns)] = max_n
        /\ n_measures = 1 => ns = <<min_n>>

\* three points between two different sizes have been measured
C5_Witness ==
    /\ MeasureReturned
    /\ n_measures >= 3
    /\ min_n < max_n
    /\ (max_n - min_n) % (n_measures - 1) = 0

\* ---- C6 ----

\* C6: the time recorded for a sample point is the minimum over the
\* n_timings rounds of the round's total time, and each round calls func
\* exactly n_repeats times.
C6_MinimumOfTheRounds ==
    \A j \in DOMAIN execution_time :
        Recorded(j) =>
            /\ Cardinality(RoundsOf(j)) = n_timings
            /\ \A p \in RoundsOf(j) : execution_time[j] <= log[p].t
            /\ \E p \in RoundsOf(j) : execution_time[j] = log[p].t
            /\ \A r \in 1..n_timings :
                 Cardinality({p \in Events("func") :
                                log[p].idx = j /\ log[p].rnd = r}) = n_repeats

\* a point timed in two rounds of two calls, the last round the slower one
C6_Witness ==
    \E j \in DOMAIN execution_time :
        /\ Recorded(j)
        /\ n_timings >= 2
        /\ n_repeats >= 2
        /\ \E p \in RoundsOf(j) : /\ log[p].rnd = n_timings
                                  /\ log[p].t > execution_time[j]

\* ---- C7 ----

\* C7: data_generator is called exactly once for each sample point, before
\* any call of func for that point, and every call of func for the point
\* receives the instance that call returned.
C7_OneInputPerSamplePoint ==
    /\ \A p \in Events("func") :
         \E q \in Events("gen") :
            /\ q < p
            /\ log[q].idx = log[p].idx
            /\ log[q].data = log[p].data
    /\ \A q1, q2 \in Events("gen") : log[q1].idx = log[q2].idx => q1 = q2
    /\ \A j \in DOMAIN execution_time :
         Recorded(j) => \E q \in Events("gen") : log[q].idx = j

\* two sample points, each timed in two rounds of two calls
C7_Witness ==
    /\ Recorded(2)
    /\ n_timings >= 2
    /\ n_repeats >= 2
    /\ Cardinality(Events("func")) = 2 * n_timings * n_repeats

\* ---- C8 ----

\* C8: once func has raised, nothing is called any more (the raise is the
\* last event), no model is fitted and nothing is returned.
C8_RaisePropagates ==
    \A p \in Events("raise") :
        /\ p = Len(log)
        /\ pc = "raised"
        /\ err = "func"
        /\ fitted = <<>>
        /\ Events("fit") = {}

\* func raises at the second sample point, the first one already measured
C8_Witness ==
    /\ Events("raise") # {}
    /\ Recorded(1)
    /\ log[Len(log)].idx = 2

\* ---- C9 ----

ModelEntries == {p \in DOMAIN fitted : fitted[p].key.kind = "model"}
StrEntries == {p \in DOMAIN fitted : fitted[p].key.kind = "str"}

\* C9: the map big_o returns has one residual entry for every candidate
\* tried, keyed by its own instance; with return_raw_data it has in addition
\* exactly the entries 'measures' and 'times', equal to the sizes and times
\* measured; without it, no other key.
C9_ReturnedMap ==
    BigOReturned =>
        /\ Cardinality(ModelEntries) = Len(classes)
        /\ \A j \in 1..Len(classes) :
             \E p \in ModelEntries :
                /\ fitted[p].key = InstKey(j, classes[j])
                /\ fitted[p].val = ResVal(ResidualOf(j))
        /\ \A p, q \in DOMAIN fitted : fitted[p].key = fitted[q].key => p = q
        /\ IF return_raw_data
           THEN /\ {fitted[p].key.name : p \in StrEntries} = {"measures", "times"}
                /\ Cardinality(StrEntries) = 2
                /\ \A p \in StrEntries :
                     fitted[p].val = IF fitted[p].key.name = "measures"
                                     THEN ArrVal(ns)
                                     ELSE ArrVal(execution_time)
           ELSE StrEntries = {}
        /\ Len(fitted) = Cardinality(ModelEntries) + Cardinality(StrEntries)

\* raw data asked for, the same class listed twice, the second one losing
C9_Witness ==
    /\ BigOReturned
    /\ return_raw_data
    /\ Len(classes) >= 2
    /\ classes[1] = classes[2]
    /\ best_class = InstKey(1, classes[1])

\* ---- C10 ----

\* C10: for a non-empty candidate list whose residuals are all finite, no
\* candidate has a residual lower than that of the returned best model by
\* more than 1e-6.
C10_BestIsLowestUpToEps ==
    (BigOReturned /\ classes # <<>> /\ AllFinite) =>
        /\ best_class # None
        /\ \A j \in 1..Len(classes) :
             ~(ResidualOf(j) < ResidualOf(best_class.id) - Eps)

\* a loser has a lower residual than the best model, within 1e-6 of it
C10_Witness ==
    /\ BigOReturned
    /\ AllFinite
    /\ best_class # None
    /\ \E j \in 1..Len(classes) : ResidualOf(j) < ResidualOf(best_class.id)
====
